---------------------------- MODULE Spec2Model ----------------------------
(***************************************************************************)
(* PSRFITS -> Filterbank conversion (bin/your_fits2fil.py).                *)
(*                                                                         *)
(* convert() slices the channel axis, plans the (start, size) chunks and   *)
(* then, chunk by chunk, reads the data and hands it to write_fil().       *)
(* write_fil() looks at the size of the output file to decide whether the  *)
(* header has to be written before the chunk is appended.                  *)
(* make_sigproc_obj() builds the header, including the packed             *)
(* sexagesimal coordinates.                                                *)
(*                                                                         *)
(* Python sequences are 0-indexed, TLA+ sequences 1-indexed: Python's      *)
(* s[k] is s[k+1] here.  File sizes are bytes.  Packed coordinates are     *)
(* records [sign, whole, frac], frac being the four decimals of %07.4f.     *)
(***************************************************************************)
EXTENDS Integers, Sequences, FiniteSets, TLC

\* ------------------------------------------------------------------ bounds
\* native_nspectra ranges over k * interval + r, k in 0..MaxLoops
MaxLoops == 2
\* the source has 1..MaxChans frequency channels
MaxChans == 3

\* ------------------------------------------------------- program constants
\* interval = 4096 * 24
interval == 4096 * 24
\* os.stat(filfile).st_size > 8192
HeaderThreshold == 8192

\* two invocations of convert() on the same output path
Procs == {1, 2}

\* remainders of native_nspectra modulo interval that are tried
Remainders == {0, 100}
\* sizes in bytes of the header block write_header() produces
HeaderSizes == {400, 8192}
\* bytes of one sample in y.your_header.dtype
ItemSizes == {1, 4}
\* channel frequency step y.your_header.foff
Foffs == {-1, 1}

VARIABLES
    native_nspectra,   \* y.your_header.native_nspectra
    chan_freqs,        \* y.chan_freqs
    foff,              \* y.your_header.foff
    c,                 \* the -c argument: <<>> (None) or a pair of ints
    hdrlen,            \* bytes of the header block
    itemsize,          \* bytes per sample
    conv,              \* conv[p]: the locals of invocation p of convert()
    fil,               \* the output file: [exists, content]
    clobbered,         \* records destroyed so far by header writes
    ra_as, dec_as,     \* y.your_header.ra_deg, dec_deg in arcseconds
    src_raj, src_dej,  \* fil_obj.src_raj, fil_obj.src_dej
    enc                \* TRUE once the coordinates are encoded

runvars == <<native_nspectra, chan_freqs, foff, c, hdrlen, itemsize, conv, fil,
             clobbered>>
coordvars == <<ra_as, dec_as, src_raj, src_dej, enc>>
vars == <<native_nspectra, chan_freqs, foff, c, hdrlen, itemsize, conv, fil,
          clobbered, ra_as, dec_as, src_raj, src_dej, enc>>

\* ------------------------------------------------------------ Python helpers
Min2(a, b) == IF a < b THEN a ELSE b
Max2(a, b) == IF a > b THEN a ELSE b
Abs(x) == IF x < 0 THEN -x ELSE x

\* int(np.min(c)), int(np.max(c)) of the two-element list c
NpMin(s) == Min2(s[1], s[2])
NpMax(s) == Max2(s[1], s[2])

\* a slice bound as Python normalises it: a negative bound counts from the
\* end, and the result is clipped to [0, len]
SliceBound(x, n) == IF x < 0 THEN Max2(x + n, 0) ELSE Min2(x, n)

\* s[lo:hi] taken without clipping: a bound outside the sequence is kept
PySliceStrict(s, lo, hi) == [j \in 1..Max2(hi - lo, 0) |-> s[Min2(Max2(lo + j, 1), Len(s))]]

\* s[lo:hi]: never raises, out-of-range bounds are clipped
PySlice(s, lo, hi) == SubSeq(s, SliceBound(lo, Len(s)) + 1, SliceBound(hi, Len(s)))

\* the channel frequency array of a source with n channels and step off
ChanFreqs(n, off) == [j \in 1..n |-> 1500 + (j - 1) * off]

\* ------------------------------------------------------------ chunk planner
\* nloops: 1 + native_nspectra // interval when native_nspectra > interval
Nloops(n) == IF n > interval THEN 1 + (n \div interval) ELSE 1

\* a planner whose starts do not advance
ArangeStuck(nloops) == [j \in 1..nloops |-> 0]

\* np.arange(0, interval * nloops, interval, dtype=int)
Arange(nloops) == [j \in 1..nloops |-> (j - 1) * interval]

\* np.full(nloops, interval), the last slot overridden by a nonzero remainder
Nsamps(n) ==
    LET nloops == Nloops(n)
        full == [j \in 1..nloops |-> interval]
    IN IF n % interval # 0 THEN [full EXCEPT ![nloops] = n % interval] ELSE full

\* ------------------------------------------------------------------ records
\* the header make_sigproc_obj() builds; chan_freq[1] is the SECOND element
\* of the sliced frequency array.  Raises IndexError when it has fewer than
\* two elements (HeaderRaises).
HeaderRaises(chan_freq) == Len(chan_freq) < 2
MakeSigprocObj(p, nchans, chan_freq) ==
    [kind |-> "hdr", by |-> p, start |-> 0, nsamp |-> 0,
     nchans |-> nchans, fch1 |-> chan_freq[2], foff |-> foff]

\* y.get_data(nstart, nsamp)[:, min_c:max_c]: nsamp spectra of the retained
\* channels
GetData(p, nstart, nsamp, min_c, max_c) ==
    [kind |-> "data", by |-> p, start |-> nstart, nsamp |-> nsamp,
     nchans |-> Len(PySlice(chan_freqs, min_c, max_c)), fch1 |-> 0, foff |-> 0]

\* bytes of one record of the file
RecBytes(r) == IF r.kind = "hdr" THEN hdrlen ELSE r.nsamp * r.nchans * itemsize

RECURSIVE SumBytes(_)
SumBytes(s) == IF s = <<>> THEN 0 ELSE RecBytes(Head(s)) + SumBytes(Tail(s))

\* os.stat(filfile).st_size, -1 standing for FileNotFoundError
StatSize == IF fil.exists THEN SumBytes(fil.content) ELSE -1

\* SigprocFile.write_header(filfile): opens the file for writing, so whatever
\* it held is gone and the header block is all it holds
WriteHeader(h) == [exists |-> TRUE, content |-> <<h>>]

\* SigprocFile.append_spectra(data, filfile): opens the file for appending
AppendSpectraTo(f, d) == [exists |-> TRUE, content |-> Append(f.content, d)]

\* a size test that is turned around
HasDataFlipped(size) == size < HeaderThreshold

\* a size test that takes the threshold for KiB
HasDataKiB(size) == size > HeaderThreshold * 1024

\* the test of write_fil: the file already holds data
HasData(size) == size > HeaderThreshold

\* ------------------------------------------------------------------- state
\* no chunk read yet
NoData ==
    [kind |-> "none", by |-> 0, start |-> 0, nsamp |-> 0, nchans |-> 0, fch1 |-> 0,
     foff |-> 0]

Idle ==
    [pc |-> "idle", min_c |-> 0, max_c |-> 0, chan_freq |-> <<>>, nchans |-> 0,
     nstarts |-> <<>>, nsamps |-> <<>>, i |-> 0, data |-> NoData, seen |-> -1,
     size0 |-> -1, calls |-> 0, hdrs |-> 0, nread |-> 0, wlog |-> <<>>,
     err |-> "none"]

Running(p) == conv[p].pc \in {"read", "stat", "header", "append"}
Ended(p) == conv[p].pc \in {"done", "failed", "aborted"}

\* the -c arguments tried: None, and pairs that reach one past either end
ChanArgs == {<<>>} \cup {<<a, b>> : a \in -1..MaxChans, b \in 0..(MaxChans + 1)}

\* a header field not set yet
NoFloat == [sign |-> 1, whole |-> 0, frac |-> 0]

CoordIdle ==
    /\ ra_as = 0 /\ dec_as = 0 /\ src_raj = NoFloat /\ src_dej = NoFloat /\ enc = FALSE

RunInit ==
    /\ conv = [p \in Procs |-> Idle]
    /\ fil = [exists |-> FALSE, content |-> <<>>]
    /\ clobbered = 0

Init ==
    /\ native_nspectra \in {k * interval + r : k \in 0..MaxLoops, r \in Remainders}
    /\ foff \in Foffs
    /\ chan_freqs \in {ChanFreqs(n, foff) : n \in 1..MaxChans}
    /\ c \in ChanArgs
    /\ hdrlen \in HeaderSizes
    /\ itemsize \in ItemSizes
    /\ RunInit
    /\ CoordIdle

\* ----------------------------------------------------------------- convert
\* convert(), lines 135-156: channel window, sliced frequencies, chunk plan
Begin(p) ==
    /\ conv[p].pc = "idle"
    /\ LET lo == IF c # <<>> THEN NpMin(c) ELSE 0
           hi == IF c # <<>> THEN NpMax(c) ELSE Len(chan_freqs)
           cf == PySlice(chan_freqs, lo, hi)
       IN conv' = [conv EXCEPT ![p] =
              [Idle EXCEPT !.pc = "read", !.min_c = lo, !.max_c = hi,
                           !.chan_freq = cf, !.nchans = Len(cf),
                           !.nstarts = Arange(Nloops(native_nspectra)),
                           !.nsamps = Nsamps(native_nspectra),
                           !.i = 1, !.size0 = StatSize]]
    /\ UNCHANGED <<native_nspectra, chan_freqs, foff, c, hdrlen, itemsize, fil,
                   clobbered, coordvars>>

\* one invocation after the other: the second starts once the first ended
Start(p) ==
    /\ \A q \in Procs \ {p} : ~Running(q)
    /\ p = 2 => Ended(1)
    /\ Begin(p)

\* two invocations side by side
StartRace(p) == Begin(p)

\* lines 159-162: read the next chunk and slice its channel axis
Read(p) ==
    /\ conv[p].pc = "read"
    /\ LET v == conv[p]
       IN conv' = [conv EXCEPT ![p].data =
                       GetData(p, v.nstarts[v.i], v.nsamps[v.i], v.min_c, v.max_c),
                                   ![p].nread = v.nread + 1,
                                   ![p].pc = "stat"]
    /\ UNCHANGED <<native_nspectra, chan_freqs, foff, c, hdrlen, itemsize, fil,
                   clobbered, coordvars>>

\* write_fil, line 106: the size check (FileNotFoundError is caught, line 116)
Stat(p) ==
    /\ conv[p].pc = "stat"
    /\ conv' = [conv EXCEPT ![p].seen = StatSize,
                            ![p].calls = conv[p].calls + 1,
                            ![p].pc = IF StatSize >= 0 /\ HasData(StatSize)
                                      THEN "append" ELSE "header"]
    /\ UNCHANGED <<native_nspectra, chan_freqs, foff, c, hdrlen, itemsize, fil,
                   clobbered, coordvars>>

\* write_fil, lines 111-112 and 117-118: make_sigproc_obj and write_header
Header(p) ==
    /\ conv[p].pc = "header"
    /\ IF HeaderRaises(conv[p].chan_freq)
       THEN /\ conv' = [conv EXCEPT ![p].pc = "failed", ![p].err = "IndexError"]
            /\ UNCHANGED <<fil, clobbered>>
       ELSE /\ fil' = WriteHeader(MakeSigprocObj(p, conv[p].nchans, conv[p].chan_freq))
            /\ clobbered' = clobbered + Len(fil.content)
            /\ conv' = [conv EXCEPT ![p].hdrs = conv[p].hdrs + 1, ![p].pc = "append"]
    /\ UNCHANGED <<native_nspectra, chan_freqs, foff, c, hdrlen, itemsize, coordvars>>

\* write_fil, lines 108, 114, 120: append_spectra, then the loop goes on
AppendSpectra(p) ==
    /\ conv[p].pc = "append"
    /\ fil' = AppendSpectraTo(fil, conv[p].data)
    /\ LET v == conv[p]
       IN conv' = [conv EXCEPT ![p].wlog = Append(v.wlog, v.data.start),
                               ![p].i = IF v.i = Len(v.nstarts) THEN v.i ELSE v.i + 1,
                               ![p].pc = IF v.i = Len(v.nstarts) THEN "done" ELSE "read"]
    /\ UNCHANGED <<native_nspectra, chan_freqs, foff, c, hdrlen, itemsize, clobbered,
                   coordvars>>

\* an external interrupt ends the first invocation where it stands
Abort(p) ==
    /\ p = 1
    /\ Running(p)
    /\ conv' = [conv EXCEPT ![p].pc = "aborted"]
    /\ UNCHANGED <<native_nspectra, chan_freqs, foff, c, hdrlen, itemsize, fil,
                   clobbered, coordvars>>

Next ==
    \E p \in Procs :
        \/ Start(p)
        \/ Read(p)
        \/ Stat(p)
        \/ Header(p)
        \/ AppendSpectra(p)
        \/ Abort(p)

Spec == Init /\ [][Next]_vars


\* ------------------------------------------------- two invocations at once
InitRace ==
    /\ native_nspectra \in {100, interval + 100}
    /\ foff = -1
    /\ chan_freqs \in {ChanFreqs(n, foff) : n \in 1..2}
    /\ c = <<>>
    /\ hdrlen = 400
    /\ itemsize = 1
    /\ RunInit
    /\ CoordIdle

NextRace ==
    \E p \in Procs :
        \/ StartRace(p)
        \/ Read(p)
        \/ Stat(p)
        \/ Header(p)
        \/ AppendSpectra(p)

SpecRace == InitRace /\ [][NextRace]_vars

\* ------------------------------------------------------------- coordinates
Sgn(x) == IF x < 0 THEN -1 ELSE IF x > 0 THEN 1 ELSE 0

DigitChars == <<"0", "1", "2", "3", "4", "5", "6", "7", "8", "9">>
DigitVal(ch) == CHOOSE d \in 0..9 : DigitChars[d + 1] = ch

\* the decimal digits of n >= 0
RECURSIVE Digits(_)
Digits(n) == IF n < 10 THEN <<DigitChars[n + 1]>>
             ELSE Digits(n \div 10) \o <<DigitChars[(n % 10) + 1]>>

RECURSIVE ZeroPad(_, _)
ZeroPad(s, w) == IF Len(s) >= w THEN s ELSE ZeroPad(<<"0">> \o s, w)

\* f'{n:02d}': the sign counts towards the width of two
Fmt02d(n) == IF n < 0 THEN <<"-">> \o ZeroPad(Digits(-n), 1) ELSE ZeroPad(Digits(n), 2)

\* f'{x:07.4f}' of x >= 0 given in units of 10^-4
Fmt074f(x4) == ZeroPad(Digits(x4 \div 10000), 2) \o <<".">> \o ZeroPad(Digits(x4 % 10000), 4)

RECURSIVE DigitsValue(_)
DigitsValue(s) == IF s = <<>> THEN 0
                  ELSE 10 * DigitsValue(SubSeq(s, 1, Len(s) - 1)) + DigitVal(s[Len(s)])

\* float(text) of a text [-]digits.dddd: sign, whole part and the four
\* decimals (-0.0 and 0.0 are the same float)
ParseFloat(s) ==
    LET neg == s[1] = "-"
        body == IF neg THEN Tail(s) ELSE s
        dot == CHOOSE k \in 1..Len(body) : body[k] = "."
        whole == DigitsValue(SubSeq(body, 1, dot - 1))
        frac == DigitsValue(SubSeq(body, dot + 1, Len(body)))
    IN [sign |-> IF neg /\ (whole # 0 \/ frac # 0) THEN -1 ELSE 1,
        whole |-> whole, frac |-> frac]

\* loc.ra.hms of an angle of a arcseconds, 0 <= a < 360 degrees: hours,
\* minutes, and seconds of time in units of 10^-4 (15 arcseconds a second)
RaHms(a) == <<a \div 54000, (a \div 900) % 60, ((a % 900) * 20000 + 15) \div 30>>

\* loc.dec.dms of an angle of a arcseconds: every component carries the sign
DecDms(a) == <<Sgn(a) * (Abs(a) \div 3600), Sgn(a) * ((Abs(a) \div 60) % 60),
               Sgn(a) * (Abs(a) % 60) * 10000>>

\* lines 74-75: the packed text int(x[0]):02d, abs(int(x[1])):02d, abs(x[2]):07.4f
PackedText(x) == Fmt02d(x[1]) \o Fmt02d(Abs(x[2])) \o Fmt074f(Abs(x[3]))

RaValues == {0, 1, 648000, 1295999}
DecValues == {sg * (d * 3600 + m * 60 + s) :
                 sg \in {-1, 1}, d \in {0, 5, 45, 89}, m \in {0, 30}, s \in {0, 7}}
             \cup {-324000, 324000}

InitCoord ==
    /\ ra_as \in RaValues
    /\ dec_as \in DecValues
    /\ src_raj = NoFloat /\ src_dej = NoFloat /\ enc = FALSE
    /\ native_nspectra = 0 /\ foff = 1 /\ chan_freqs = ChanFreqs(1, 1) /\ c = <<>>
    /\ hdrlen = 400 /\ itemsize = 1
    /\ RunInit

\* make_sigproc_obj, lines 69-75
Encode ==
    /\ ~enc
    /\ src_raj' = ParseFloat(PackedText(RaHms(ra_as)))
    /\ src_dej' = ParseFloat(PackedText(DecDms(dec_as)))
    /\ enc' = TRUE
    /\ UNCHANGED <<ra_as, dec_as, runvars>>

NextCoord == Encode

SpecCoord == InitCoord /\ [][NextCoord]_vars

\* ================================================================= claims
RECURSIVE SumSeq(_)
SumSeq(s) == IF s = <<>> THEN 0 ELSE Head(s) + SumSeq(Tail(s))

Ceil(a, b) == (a + b - 1) \div b

\* the requested window [min_c, max_c)
Lo == IF c # <<>> THEN NpMin(c) ELSE 0
Hi == IF c # <<>> THEN NpMax(c) ELSE Len(chan_freqs)
ValidWindow == 0 <= Lo /\ Lo < Hi /\ Hi <= Len(chan_freqs)
OutOfRange == Lo < 0 \/ Hi > Len(chan_freqs)

\* the width Python's slice leaves of the window
Clip(x) == IF x < 0 THEN Max2(x + Len(chan_freqs), 0) ELSE Min2(x, Len(chan_freqs))
ClipWidth == Max2(Clip(Hi) - Clip(Lo), 0)

\* the records of the file written by p, in file order
RECURSIVE DataBy(_, _)
DataBy(s, p) == IF s = <<>> THEN <<>>
                ELSE IF Head(s).kind = "data" /\ Head(s).by = p
                     THEN <<Head(s)>> \o DataBy(Tail(s), p)
                     ELSE DataBy(Tail(s), p)

\* chunk j of the plan as invocation p writes it
ChunkRec(p, j) ==
    GetData(p, conv[p].nstarts[j], conv[p].nsamps[j], conv[p].min_c, conv[p].max_c)

\* C1: the planned chunks have strictly increasing starts, are contiguous
\* from 0 and their sizes sum to native_nspectra.
C1_ChunkCoverage ==
    \A p \in Procs : conv[p].pc # "idle" =>
        LET s == conv[p].nstarts
            z == conv[p].nsamps
        IN /\ Len(s) = Len(z)
           /\ s[1] = 0
           /\ \A j \in 1..(Len(s) - 1) : s[j] < s[j + 1] /\ s[j] + z[j] = s[j + 1]
           /\ SumSeq(z) = native_nspectra

\* C2: for a valid window every header written has nchans = max_c - min_c
\* and fch1 = chan_freqs[min_c].
C2_ChannelWindow ==
    ValidWindow =>
        \A j \in 1..Len(fil.content) :
            fil.content[j].kind = "hdr" =>
                /\ fil.content[j].nchans = Hi - Lo
                /\ fil.content[j].fch1 = chan_freqs[Lo + 1]

\* C3: a first write_fil on an absent path with a nonzero chunk leaves the
\* file larger than the threshold, and a call that finds the file present
\* never takes the header-writing branch.
C3_IdempotentHeader ==
    \A p \in Procs :
        /\ ( /\ conv[p].seen = -1
             /\ Len(conv[p].wlog) = 1
             /\ Len(fil.content) = 2
             /\ RecBytes(fil.content[2]) > 0 ) => StatSize > HeaderThreshold
        /\ conv[p].pc = "header" => conv[p].seen = -1

\* C4: for native_nspectra > interval, not a multiple of it, a run on an
\* absent path plans ceil(N/W) chunks (i*W, W), the last of size N mod W, and
\* ends having issued one write_fil per chunk, the first writing the header
\* and the later ones only appending.
C4_EndToEnd ==
    \A p \in Procs :
        ( /\ ValidWindow
          /\ native_nspectra > interval
          /\ native_nspectra % interval # 0
          /\ conv[p].pc # "idle"
          /\ conv[p].size0 = -1 ) =>
            LET n == Ceil(native_nspectra, interval)
                v == conv[p]
            IN /\ Len(v.nstarts) = n /\ Len(v.nsamps) = n
               /\ \A j \in 1..n :
                     /\ v.nstarts[j] = (j - 1) * interval
                     /\ v.nsamps[j] = IF j = n THEN native_nspectra % interval ELSE interval
               /\ v.pc \in {"done", "failed"} =>
                     /\ v.calls = n
                     /\ v.hdrs = 1
                     /\ v.pc = "done"
                     /\ \A q \in Procs \ {p} : conv[q].pc = "idle" =>
                           /\ Len(fil.content) = n + 1
                           /\ fil.content[1].kind = "hdr"
                           /\ \A j \in 1..n : fil.content[j + 1] = ChunkRec(p, j)

\* C5: a write_fil call that finds the path absent does not raise and leaves
\* the file holding the header followed by exactly the given chunk (looked at
\* before any other invocation has written to the file).
C5_MissingPath ==
    \A p \in Procs :
        (ValidWindow /\ conv[p].seen = -1 /\ conv[p].calls = 1) =>
            /\ conv[p].pc # "failed"
            /\ ( /\ conv[p].pc \in {"read", "done"}
                 /\ \A q \in Procs \ {p} : conv[q].hdrs = 0 /\ conv[q].wlog = <<>> ) =>
                  /\ Len(fil.content) = 2
                  /\ fil.content[1].kind = "hdr"
                  /\ fil.content[2] = conv[p].data

\* C6: chunks are written in strictly increasing start order, and at most
\* one chunk is read but not yet written; none is when the next is read.
C6_Sequential ==
    \A p \in Procs :
        LET v == conv[p]
            mine == DataBy(fil.content, p)
        IN /\ \A j \in 1..Len(v.wlog) : \A k \in 1..Len(v.wlog) :
                 j < k => v.wlog[j] < v.wlog[k]
           /\ \A j \in 1..Len(mine) : \A k \in 1..Len(mine) :
                 j < k => mine[j].start < mine[k].start
           /\ v.nread - Len(v.wlog) \in {0, 1}
           /\ v.pc = "read" => v.nread = Len(v.wlog)

C6_Witness ==
    \E p \in Procs : Len(conv[p].wlog) >= 2 /\ conv[p].nread = Len(conv[p].wlog) + 1

\* C8: after a run aborted with k >= 1 chunks written and a file above the
\* threshold, a completed second run has written no header and has appended
\* its whole chunk sequence from chunk 0 behind the k chunks of the first.
C8_NoResume ==
    ( /\ conv[1].pc = "aborted"
      /\ Len(conv[1].wlog) >= 1
      /\ conv[2].size0 > HeaderThreshold
      /\ conv[2].pc = "done" ) =>
        LET k == Len(conv[1].wlog)
            n == Len(conv[2].nstarts)
        IN /\ conv[2].hdrs = 0
           /\ conv[2].wlog = conv[2].nstarts
           /\ Len(fil.content) = 1 + k + n
           /\ fil.content[1].kind = "hdr" /\ fil.content[1].by = 1
           /\ \A j \in 1..k : fil.content[1 + j] = ChunkRec(1, j)
           /\ \A j \in 1..n : fil.content[1 + k + j] = ChunkRec(2, j)

C8_Witness ==
    /\ conv[1].pc = "aborted"
    /\ Len(conv[1].wlog) >= 1
    /\ Len(conv[1].wlog) < Len(conv[1].nstarts)
    /\ conv[2].size0 > HeaderThreshold
    /\ conv[2].pc = "done"
    /\ Len(fil.content) = 1 + Len(conv[1].wlog) + Len(conv[2].nstarts)

\* chunks of the two invocations alternate in the file
Interleaved(s) ==
    \E i \in 1..Len(s) : \E j \in 1..Len(s) : \E k \in 1..Len(s) :
        /\ i < j /\ j < k
        /\ s[i].kind = "data" /\ s[j].kind = "data" /\ s[k].kind = "data"
        /\ s[i].by = s[k].by /\ s[i].by # s[j].by

\* C9: with two invocations interleaving on one path, content of the file is
\* destroyed by a header write only once both invocations have taken the
\* header-writing branch; the state where both have, content was lost and
\* the chunks of the two runs alternate in the file is reachable.
C9_RaceOnlyViaBothHeaders ==
    clobbered > 0 => \A p \in Procs : conv[p].hdrs >= 1

C9_Witness ==
    /\ \A p \in Procs : conv[p].hdrs >= 1
    /\ clobbered > 0
    /\ Interleaved(fil.content)

\* C10 as stated: a run with a channel range outside [0, total_channels]
\* never completes; it ends with a failure.
C10_SlicingRaises ==
    \A p \in Procs : OutOfRange => conv[p].pc # "done"

\* C10 amended: with a channel range outside [0, total_channels] slicing
\* raises nothing: the window is clipped, nchans and the data's channel axis
\* have the clipped width, and the run fails only in the header construction,
\* when fewer than two channels are left.
C10_Clipped ==
    \A p \in Procs :
        (OutOfRange /\ conv[p].pc # "idle") =>
            /\ conv[p].nchans = ClipWidth
            /\ Len(conv[p].chan_freq) = ClipWidth
            /\ conv[p].data.kind = "data" => conv[p].data.nchans = ClipWidth
            /\ conv[p].pc = "failed" => ClipWidth < 2 /\ conv[p].calls >= 1

C10_Witness ==
    \E p \in Procs :
        /\ OutOfRange
        /\ ClipWidth >= 2
        /\ conv[p].pc = "done"
        /\ fil.exists
        /\ fil.content[1].nchans = ClipWidth

\* C7: each axis is packed as DDMMSS.SSSS whose sign is that of the source
\* coordinate and whose magnitude is |D|*10000 + M*100 + S.
C7_PackedCoordinates ==
    enc =>
        /\ src_raj = [sign |-> 1,
                      whole |-> (ra_as \div 54000) * 10000 + ((ra_as \div 900) % 60) * 100
                                + ((ra_as % 900) * 20000 + 15) \div 300000,
                      frac |-> (((ra_as % 900) * 20000 + 15) \div 30) % 10000]
        /\ src_dej = [sign |-> IF dec_as < 0 THEN -1 ELSE 1,
                      whole |-> (Abs(dec_as) \div 3600) * 10000
                                + ((Abs(dec_as) \div 60) % 60) * 100 + (Abs(dec_as) % 60),
                      frac |-> 0]

=============================================================================
